---------------------------- MODULE Spec2Model ----------------------------
(***************************************************************************)
(* A model of plex-tui.py: the PlexTUI application object, its playlist    *)
(* track loader (_load_playlist_tracks) with its strategy selection,       *)
(* fallback chains and tracks_cache, the artist resolver                   *)
(* (_get_artist_name) and the playback sequencer actions.                  *)
(*                                                                         *)
(* Python lists are objects: tracks_cache[key] and current_playlist may    *)
(* name the same list, and random.shuffle mutates it in place.  The model  *)
(* keeps a heap of list objects; tracks_cache and current_playlist hold    *)
(* references into it.                                                     *)
(***************************************************************************)
EXTENDS Integers, Sequences, FiniteSets, TLC

(***************************************************************************)
(* Program constants (plex-tui.py lines 39-42).                            *)
(***************************************************************************)
LARGE_PLAYLIST_THRESHOLD == 1000
LARGE_PLAYLIST_LIMIT == 50
REGULAR_PLAYLIST_LIMIT == 100
MAX_API_RESULTS == 1000
\* len(self.current_playlist) > 50, line 656.
SHUFFLE_THRESHOLD == 50

(***************************************************************************)
(* Bounds of the model.                                                    *)
(***************************************************************************)
\* Playlists the server lists: ratingKeys 1..NumPlaylists.
NumPlaylists == 2
\* A remote sequence yields 0..MaxSmall items, or a number of items from a
\* cap up to MaxOver above it.
MaxSmall == 2
MaxOver == 1
\* A text field is padded with 0..MaxPad blanks on each side.
MaxPad == 1
\* Calls on one track that invoke a remote method are counted up to
\* MaxLookups.
MaxLookups == 2
\* A remote sequence that raises while it is iterated raises after it has
\* yielded 0..MaxPartial items.
MaxPartial == 1
\* action_next is explored while current_index < MaxIndex.
MaxIndex == 1
\* A title search returns 0..MaxSearch tracks.
MaxSearch == 1

VARIABLES
    mounted,              \* on_mount has run
    plex,                 \* self.plex is a server session (TRUE) or None (FALSE)
    music_library,        \* self.music_library is a section (TRUE) or None (FALSE)
    playlist_cache,       \* ratingKey -> [title, leafCount] of the cached playlist object
    heap,                 \* list objects: reference -> sequence of tracks
    tracks_cache,         \* ratingKey -> reference of the cached track list
    current_playlist,     \* reference of the active track list
    current_index,
    current_track,        \* <<>> is None
    is_playing,
    current_process,      \* "None", or the state of the held Popen handle:
                          \* "running" or "terminate_requested"
    search_results,
    highlighted_playlist, \* self._highlighted_playlist: a ratingKey, 0 is None
    sub_title,            \* the status line
    now_playing,          \* the track the #now-playing widget names, <<>> if none
    lastLoad,             \* what _load_playlist_tracks did in the handler that
                          \* just ran; NoLoad if the handler did not call it
    resolved,             \* what the latest explored _get_artist_name call
                          \* read and returned; NoCall before any
    lookups,              \* the calls of _get_artist_name on the track under
                          \* resolution that invoked fetchItem or artist()
    unterminated          \* the player processes spawned so far on which
                          \* terminate() was never called

vars == <<mounted, plex, music_library, playlist_cache, heap, tracks_cache,
          current_playlist, current_index, current_track, is_playing,
          current_process, search_results, highlighted_playlist, sub_title,
          now_playing, lastLoad, resolved, lookups, unterminated>>

\* The program's own state.
progvars == <<mounted, plex, music_library, playlist_cache, heap, tracks_cache,
              current_playlist, current_index, current_track, is_playing,
              current_process, search_results, highlighted_playlist, sub_title,
              now_playing>>

PlaylistIds == 1..NumPlaylists

Min(a, b) == IF a <= b THEN a ELSE b

(***************************************************************************)
(* Playlist objects as the server reports them.  leafCount is a set: {}    *)
(* when the count is unavailable (None), {n} when it is n.                 *)
(***************************************************************************)
Titles == {"Big Mix", "Recently Added"}

\* "Recently Added" in playlist_title: a case-sensitive substring test.
ContainsRecentlyAdded(title) == title \in {"Recently Added"}

DeclaredCounts ==
    {{}, {LARGE_PLAYLIST_THRESHOLD}, {LARGE_PLAYLIST_THRESHOLD + 1}}

PlaylistObjects == [title : Titles, leafCount : DeclaredCounts]

(***************************************************************************)
(* Remote sequences.  A call of a fetch method either raises at the call   *)
(* ("callraise"), or returns a sequence that yields n items and ends       *)
(* ("ok"), or returns one that yields n items and then raises              *)
(* ("iterraise").                                                          *)
(***************************************************************************)
\*
\* A remote environment names the lengths remote sequences may have and the
\* positions at which an iteration may raise.  LoaderRemote is what the
\* loader is explored against (SpecLoad); SessionRemote is the narrower
\* environment of the whole-application behaviours (Spec): short lists, a
\* list that overflows every cap, and calls that raise.
LoaderRemote ==
    [sizes |-> (0..MaxSmall)
                 \cup (LARGE_PLAYLIST_LIMIT..(LARGE_PLAYLIST_LIMIT + MaxOver))
                 \cup (REGULAR_PLAYLIST_LIMIT..(REGULAR_PLAYLIST_LIMIT + MaxOver)),
     partials |-> 0..MaxPartial]

SessionRemote ==
    [sizes |-> {MaxSmall, REGULAR_PLAYLIST_LIMIT + MaxOver},
     partials |-> {}]

\* AttributeError is what a library without the method raises (line 306);
\* "Exception" stands for every other exception.
Exceptions(method) ==
    IF method = "recentlyAdded" THEN {"AttributeError", "Exception"}
                                ELSE {"Exception"}

Outcomes(method, remote) ==
    {[kind |-> "ok", n |-> n, exc |-> "none"] : n \in remote.sizes}
        \cup {[kind |-> "callraise", n |-> 0, exc |-> e] :
                e \in Exceptions(method)}
        \cup {[kind |-> "iterraise", n |-> n, exc |-> e] :
                n \in remote.partials, e \in Exceptions(method)}

\* The i-th track object a call of `method` yields (pl: the playlist whose
\* items() was called, 0 for a library method).
Track(method, pl, i) == <<method, pl, i>>

Items(method, pl, n) == [i \in 1..n |-> Track(method, pl, i)]


(***************************************************************************)
(* One call of a fetch method as _load_playlist_tracks made it.            *)
(*   maxresults: {} when the call carries no server-side limit             *)
(*   exc:        "none", or the exception raised                           *)
(*   at:         "call" if the call itself raised, "iter" if the iteration *)
(*               of what it returned did, "none" otherwise                 *)
(*   drawn:      how many items were taken from the returned sequence      *)
(***************************************************************************)
Call(method, maxresults, exc, at, drawn) ==
    [method |-> method, maxresults |-> maxresults, exc |-> exc, at |-> at,
     drawn |-> drawn]

At(exc) == IF exc = "none" THEN "none" ELSE "iter"

\* for i, track in enumerate(seq): if i < limit: tracks.append(track)
\*                                 else: break
\* The loop asks the sequence for item limit+1 before it breaks; a sequence
\* that raises after o.n items raises in the loop iff o.n <= limit.
EnumerateLoop(tracks, method, src, o, limit) ==
    [tracks |-> tracks \o Items(method, src, Min(o.n, limit)),
     exc    |-> IF o.kind = "iterraise" /\ o.n <= limit THEN o.exc ELSE "none",
     drawn  |-> Min(o.n, limit + 1)]

\* items = playlist.items() and the loop over it, appending to `tracks`.
\* Nothing catches what it raises short of the handler of line 400
\* (line 380 re-raises): the fetch has failed.
PlaylistItemsFetch(tracks, calls, pl, limit, remote) ==
    { IF o.kind = "callraise"
        THEN [tracks |-> tracks,
              calls  |-> Append(calls, Call("items", {}, o.exc, "call", 0)),
              failed |-> TRUE]
        ELSE LET r == EnumerateLoop(tracks, "items", pl, o, limit)
             IN  [tracks |-> r.tracks,
                  calls  |-> Append(calls, Call("items", {}, r.exc, At(r.exc), r.drawn)),
                  failed |-> r.exc # "none"]
      : o \in Outcomes("items", remote) }

\* The loop of lines 310-314 over what recentlyAdded or the sorted search
\* returned; whatever it raises is caught at line 316, which falls back to
\* the playlist's own items, appending to the same `tracks`.
RecentCollect(tracks, calls, method, pl, o, limit, api_limit, remote) ==
    LET r == EnumerateLoop(tracks, method, 0, o, limit)
        cs == Append(calls, Call(method, {api_limit}, r.exc, At(r.exc), r.drawn))
    IN  IF r.exc # "none"
          THEN PlaylistItemsFetch(r.tracks, cs, pl, limit, remote)
          ELSE {[tracks |-> r.tracks, calls |-> cs, failed |-> FALSE]}

\* Mutant: the inner handler catches every exception of the call.
FallsBackOnAnyCallError(o) == o.kind = "callraise"

\* Lines 304-308: only an AttributeError of the recentlyAdded call itself is
\* caught by the inner handler, which then tries the sorted search.
FallsBackToSortedSearch(o) ==
    o.kind = "callraise" /\ o.exc = "AttributeError"

\* Lines 301-327: the "Recently Added" branch.
RecentFeed(pl, limit, api_limit, remote) ==
    UNION {
      IF FallsBackToSortedSearch(o1)
        THEN \* except AttributeError: the sorted search
             LET c1 == <<Call("recentlyAdded", {api_limit}, o1.exc, "call", 0)>>
             IN  UNION {
                   IF o2.kind = "callraise"
                     THEN PlaylistItemsFetch(<<>>,
                            Append(c1, Call("searchSorted", {api_limit}, o2.exc, "call", 0)),
                            pl, limit, remote)
                     ELSE RecentCollect(<<>>, c1, "searchSorted", pl, o2,
                                        limit, api_limit, remote)
                   : o2 \in Outcomes("searchSorted", remote) }
        ELSE IF o1.kind = "callraise"
          THEN PlaylistItemsFetch(<<>>,
                 <<Call("recentlyAdded", {api_limit}, o1.exc, "call", 0)>>, pl, limit,
                 remote)
          ELSE RecentCollect(<<>>, <<>>, "recentlyAdded", pl, o1, limit,
                             api_limit, remote)
      : o1 \in Outcomes("recentlyAdded", remote) }

\* Mutant: a failed library search goes straight to the playlist's items.
LibraryAllSkipped(calls, pl, limit, remote) ==
    PlaylistItemsFetch(<<>>, calls, pl, limit, remote)

\* Lines 345-365: library.all() with an early break, then the playlist.
LibraryAllFetch(calls, pl, limit, remote) ==
    UNION {
      IF o.kind = "callraise"
        THEN PlaylistItemsFetch(<<>>, Append(calls, Call("all", {}, o.exc, "call", 0)),
                                pl, limit, remote)
        ELSE LET r == EnumerateLoop(<<>>, "all", 0, o, limit)
                 cs == Append(calls, Call("all", {}, r.exc, At(r.exc), r.drawn))
             IN  IF r.exc # "none"
                   THEN PlaylistItemsFetch(r.tracks, cs, pl, limit, remote)
                   ELSE {[tracks |-> r.tracks, calls |-> cs, failed |-> FALSE]}
      : o \in Outcomes("all", remote) }

\* Lines 328-365: the library method.  tracks = list(all_tracks) takes every
\* item the search returns and assigns only if none raised.
LibraryScan(pl, limit, api_limit, remote) ==
    UNION {
      IF o.kind = "ok"
        THEN {[tracks |-> Items("search", 0, Min(o.n, limit)),
               calls  |-> <<Call("search", {api_limit}, "none", "none", o.n)>>,
               failed |-> FALSE]}
        ELSE LibraryAllFetch(<<Call("search", {api_limit}, o.exc,
                                   IF o.kind = "callraise" THEN "call" ELSE "iter",
                                   o.n)>>,
                             pl, limit, remote)
      : o \in Outcomes("search", remote) }

\* Lines 366-380: the playlist's own items.
DirectEnumeration(pl, limit, remote) ==
    PlaylistItemsFetch(<<>>, <<>>, pl, limit, remote)


(***************************************************************************)
(* Lines 260-299: the declared count, the limit and the strategy.          *)
(***************************************************************************)
\* playlist_count and playlist_count > LARGE_PLAYLIST_THRESHOLD
\* (None and 0 are falsy).
IsLargePlaylist(count) ==
    \E n \in count : n # 0 /\ n > LARGE_PLAYLIST_THRESHOLD

\* Mutant: the reduced limit is applied from the threshold itself.
LoadLimitFromThreshold(count) ==
    IF \E n \in count : n >= LARGE_PLAYLIST_THRESHOLD
      THEN LARGE_PLAYLIST_LIMIT
      ELSE REGULAR_PLAYLIST_LIMIT

\* Every caller leaves the limit parameter None (lines 212, 653, 677, 682).
LoadLimit(count) ==
    IF IsLargePlaylist(count) THEN LARGE_PLAYLIST_LIMIT
                              ELSE REGULAR_PLAYLIST_LIMIT

\* Mutant: every limited call asks for the API ceiling.
ApiLimitCeiling(limit) == MAX_API_RESULTS

\* Line 281: api_limit = min(limit, MAX_API_RESULTS)
ApiLimit(limit) == Min(limit, MAX_API_RESULTS)

\* Mutant: the library method is chosen without a library handle.
SelectStrategyIgnoringLibrary(title, count, library) ==
    IF title # "" /\ ContainsRecentlyAdded(title) /\ library
      THEN "RECENT_FEED"
      ELSE IF IsLargePlaylist(count)
        THEN "LARGE_LIBRARY_SCAN"
        ELSE "DIRECT_ENUMERATION"

SelectStrategy(title, count, library) ==
    IF title # "" /\ ContainsRecentlyAdded(title) /\ library
      THEN "RECENT_FEED"
      ELSE IF IsLargePlaylist(count) /\ library
        THEN "LARGE_LIBRARY_SCAN"
        ELSE "DIRECT_ENUMERATION"

\* What the fetch of lines 293-380 can produce for playlist p.
Fetch(p, remote) ==
    LET pl == playlist_cache[p]
        limit == LoadLimit(pl.leafCount)
        strategy == SelectStrategy(pl.title, pl.leafCount, music_library)
    IN  IF strategy = "RECENT_FEED"
          THEN RecentFeed(p, limit, ApiLimit(limit), remote)
          ELSE IF strategy = "LARGE_LIBRARY_SCAN"
            THEN LibraryScan(p, limit, ApiLimit(limit), remote)
            ELSE DirectEnumeration(p, limit, remote)

NoLoad ==
    [pid |-> 0, hit |-> FALSE, limit |-> 0, calls |-> <<>>, failed |-> FALSE,
     ntracks |-> 0]

\* The list object a load of playlist p creates (reference 0 is the list
\* __init__ creates).
NewRef(p) == p

(***************************************************************************)
(* _load_playlist_tracks(playlist), lines 243-403: the states it can leave *)
(* behind, as the values of the variables it writes.                       *)
(***************************************************************************)
\* Mutant: a cache hit makes a copy of the cached list current.
CacheHitCopies(p) ==
    [heap |-> heap @@ (p + NumPlaylists :> heap[tracks_cache[p]]),
     tracks_cache |-> tracks_cache,
     current_playlist |-> p + NumPlaylists, current_index |-> 0,
     sub_title |-> "Using cached tracks (instant)",
     lastLoad |-> [pid |-> p, hit |-> TRUE, limit |-> 0, calls |-> <<>>,
                   failed |-> FALSE,
                   ntracks |-> Len(heap[tracks_cache[p]])]]

\* Lines 250-258: the cached list itself becomes current.
CacheHit(p) ==
    [heap |-> heap, tracks_cache |-> tracks_cache,
     current_playlist |-> tracks_cache[p], current_index |-> 0,
     sub_title |-> "Using cached tracks (instant)",
     lastLoad |-> [pid |-> p, hit |-> TRUE, limit |-> 0, calls |-> <<>>,
                   failed |-> FALSE,
                   ntracks |-> Len(heap[tracks_cache[p]])]]

\* Mutant: what was collected before the fetch raised is cached.
LoadFailedCachesPartial(p, r) ==
    [heap |-> heap @@ (NewRef(p) :> r.tracks),
     tracks_cache |-> tracks_cache @@ (p :> NewRef(p)),
     current_playlist |-> current_playlist, current_index |-> current_index,
     sub_title |-> "Error",
     lastLoad |-> [pid |-> p, hit |-> FALSE,
                   limit |-> LoadLimit(playlist_cache[p].leafCount),
                   calls |-> r.calls, failed |-> TRUE, ntracks |-> 0]]

\* Lines 400-403: the fetch raised; only the status changes.
LoadFailed(p, r) ==
    [heap |-> heap, tracks_cache |-> tracks_cache,
     current_playlist |-> current_playlist, current_index |-> current_index,
     sub_title |-> "Error",
     lastLoad |-> [pid |-> p, hit |-> FALSE,
                   limit |-> LoadLimit(playlist_cache[p].leafCount),
                   calls |-> r.calls, failed |-> TRUE, ntracks |-> 0]]

\* Lines 384-399: the same new list is cached and made current.
LoadSucceeded(p, r) ==
    [heap |-> heap @@ (NewRef(p) :> r.tracks),
     tracks_cache |-> tracks_cache @@ (p :> NewRef(p)),
     current_playlist |-> NewRef(p), current_index |-> 0,
     sub_title |-> "Loaded",
     lastLoad |-> [pid |-> p, hit |-> FALSE,
                   limit |-> LoadLimit(playlist_cache[p].leafCount),
                   calls |-> r.calls, failed |-> FALSE,
                   ntracks |-> Len(r.tracks)]]

LoadPlaylistTracks(p, remote) ==
    IF p \in DOMAIN tracks_cache
      THEN {CacheHit(p)}
      ELSE { IF r.failed THEN LoadFailed(p, r) ELSE LoadSucceeded(p, r)
             : r \in Fetch(p, remote) }

\* _update_playlist_display(playlist, tracks, total_count), lines 472-512:
\* what the main content says about counts.  "(of N total)" is written only
\* for a total_count that is neither None nor 0 (line 480); the warning
\* "Only first N tracks loaded" only for 100 tracks or more (line 505).
UpdatePlaylistDisplay(tracks, total_count) ==
    [loaded     |-> Len(tracks),
     of_total   |-> {n \in total_count : n # 0},
     only_first |-> Len(tracks) >= REGULAR_PLAYLIST_LIMIT]

\* The main content after the load recorded in lastLoad, when it did not
\* fail: a cache hit passes None as total_count (line 257), a fetch passes
\* playlist_count (line 399).
DisplayAfterLoad ==
    UpdatePlaylistDisplay(heap[tracks_cache[lastLoad.pid]],
                          IF lastLoad.hit
                            THEN {}
                            ELSE playlist_cache[lastLoad.pid].leafCount)

(***************************************************************************)
(* _get_artist_name(track), lines 405-470.                                 *)
(*                                                                         *)
(* Strings are sequences of characters, so that strip() is computed.  A    *)
(* Python value is [st |-> "none"] or [st |-> "str", v |-> string].  What  *)
(* a tier reads from the track or the server is drawn when the tier reads  *)
(* it.  A resolution in progress is a record                               *)
(*   artist: the local variable `artist`                                   *)
(*   raised: an exception has left the function                            *)
(*   tiers:  per tier, what it found: "skipped" (its guard was false),     *)
(*           "no_attr", "raised", "falsy", "blank" (text that strips to    *)
(*           the empty string) or "value"                                  *)
(***************************************************************************)
PyNone == [st |-> "none", v |-> <<>>]

PyStr(v) == [st |-> "str", v |-> v]

\* Python's truth value of None and of a string.
Truthy(x) == x.st = "str" /\ x.v # <<>>

Unknown == <<"U", "n", "k", "n", "o", "w", "n">>

Blanks(n) == [i \in 1..n |-> " "]

\* The texts a field with content `c` may hold: empty, blank, plain, padded.
Strings(c) ==
    { Blanks(n) \o body \o Blanks(n) : n \in 0..MaxPad, body \in {<<>>, <<c>>} }

RECURSIVE LStrip(_)
LStrip(v) == IF v # <<>> /\ Head(v) = " " THEN LStrip(Tail(v)) ELSE v

RECURSIVE RStrip(_)
RStrip(v) ==
    IF v # <<>> /\ v[Len(v)] = " " THEN RStrip(SubSeq(v, 1, Len(v) - 1)) ELSE v

\* str.strip()
Strip(v) == RStrip(LStrip(v))

\* What reading an attribute can give: no such attribute, an exception, None
\* or a text.
FieldReads(c) ==
    {[st |-> "no_attr", v |-> <<>>], [st |-> "raised", v |-> <<>>],
     [st |-> "none", v |-> <<>>]}
        \cup {[st |-> "str", v |-> v] : v \in Strings(c)}

Found(a, k, status) == [a EXCEPT !.tiers = Append(@, status)]

Assigned(a, k, v) ==
    [a EXCEPT !.artist = PyStr(Strip(v)),
              !.tiers = Append(@, IF Strip(v) = <<>> THEN "blank" ELSE "value")]

\* An exception raised outside every try block leaves the function.
Propagated(a, k) ==
    [a EXCEPT !.raised = TRUE, !.tiers = Append(@, "raised")]

\* Methods 1, 3 and 4 (lines 409-415, 429-443): a structured attribute.
\*   if not artist: try: if hasattr(track, X) and track.X:
\*                           artist = str(track.X).strip()
\*                  except: pass
StructuredTier(a, k, c) ==
    IF a.raised THEN {a}
    ELSE IF Truthy(a.artist) THEN {Found(a, k, "skipped")}
    ELSE { IF f.st \in {"raised", "no_attr"} THEN Found(a, k, f.st)
           ELSE IF ~Truthy(f) THEN Found(a, k, "falsy")
           ELSE Assigned(a, k, f.v)
           : f \in FieldReads(c) }

\* The loop of lines 421-425 over the element names still to try: find()
\* raises, or gives no element or one with no text (the loop goes on), or
\* gives a text, which is stripped and assigned, and the loop breaks.
RECURSIVE RawLookup(_, _, _)
RawLookup(a, k, names) ==
    IF names = <<>> THEN {Found(a, k, "falsy")}
    ELSE {Found(a, k, "raised")}
            \cup RawLookup(a, k, Tail(names))
            \cup {Assigned(a, k, v) : v \in Strings(Head(names)) \ {<<>>}}

\* Method 2 (lines 417-427): the raw XML document.  The guard
\*   if not artist and hasattr(track, '_data') and track._data:
\* is outside the try, and hasattr lets through every exception of the read
\* but AttributeError.
RawDocumentTier(a, k) ==
    IF a.raised THEN {a}
    ELSE IF Truthy(a.artist) THEN {Found(a, k, "skipped")}
    ELSE {Found(a, k, "no_attr"),    \* no _data, or an empty one
          Propagated(a, k)}          \* the read of _data raises
            \cup RawLookup(a, k, <<"g", "o", "p">>)

\* Method 5 (lines 445-458): reload the track by ratingKey, then its
\* grandparentTitle, else the grandparentTitle element of its document.  The
\* guard
\*   if not artist and hasattr(track, 'ratingKey'):
\* is outside the try.
ReloadTier(a, k) ==
    IF a.raised THEN {a}
    ELSE IF Truthy(a.artist) THEN {Found(a, k, "skipped")}
    ELSE {Found(a, k, "no_attr"),      \* the track has no ratingKey
          Propagated(a, k),            \* the read of ratingKey raises
          Found(a, k, "raised")}       \* fetchItem or a later read raises
            \cup { IF Truthy(f) THEN Assigned(a, k, f.v)
                   ELSE Found(a, k, "falsy")
                   : f \in {x \in FieldReads("R") : x.st \in {"none", "str"}} }
            \cup {Assigned(a, k, v) : v \in Strings("r") \ {<<>>}}

\* Mutant: method 6 without its guard `if not artist`.
ArtistCallUnguarded(a, k) ==
    IF a.raised THEN {a}
    ELSE {Found(a, k, "raised"), Found(a, k, "falsy"),
          Assigned(a, k, <<"<", "A", ">">>)}

\* Method 6 (lines 460-468): track.artist(), then its title or its str().
\*   artist = artist_obj.title if hasattr(artist_obj, 'title')
\*            else str(artist_obj)
\*   artist = artist.strip() if artist else None
ArtistCallTier(a, k) ==
    IF a.raised THEN {a}
    ELSE IF Truthy(a.artist) THEN {Found(a, k, "skipped")}
    ELSE {Found(a, k, "raised"),       \* artist() or a read raises
          Found(a, k, "falsy"),        \* artist() returns None
          Assigned(a, k, <<"<", "A", ">">>)}   \* no title: str(artist_obj)
            \cup { IF Truthy(f) THEN Assigned(a, k, f.v)
                   ELSE [Found(a, k, "falsy") EXCEPT !.artist = PyNone]
                   : f \in {x \in FieldReads("T") : x.st \in {"none", "str"}} }

\* Line 470: return artist or 'Unknown'
ReturnArtist(a) ==
    [raised |-> a.raised, tiers |-> a.tiers,
     value |-> IF a.raised THEN <<>>
               ELSE IF Truthy(a.artist) THEN a.artist.v ELSE Unknown]

T1(a) == StructuredTier(a, 1, "G")
T2(a) == RawDocumentTier(a, 2)
T3(a) == StructuredTier(a, 3, "O")
T4(a) == StructuredTier(a, 4, "P")
T5(a) == ReloadTier(a, 5)
T6(a) == ArtistCallTier(a, 6)

\* The resolutions in progress after methods 1..k, from artist = None
\* (line 407).
AfterT1 == T1([artist |-> PyNone, raised |-> FALSE, tiers |-> <<>>])

AfterT2 == UNION {T2(a) : a \in AfterT1}

AfterT3 == UNION {T3(a) : a \in AfterT2}

AfterT4 == UNION {T4(a) : a \in AfterT3}

AfterT5 == UNION {T5(a) : a \in AfterT4}

AfterT6 == UNION {T6(a) : a \in AfterT5}

\* Every way one call of _get_artist_name can go.
GetArtistName == {ReturnArtist(a) : a \in AfterT6}

NoCall == [raised |-> FALSE, tiers |-> <<>>, value |-> <<>>]

(***************************************************************************)
(* __init__, lines 97-113.                                                 *)
(***************************************************************************)
Init ==
    /\ mounted = FALSE
    /\ plex = FALSE
    /\ music_library = FALSE
    /\ playlist_cache = <<>>
    /\ heap = (0 :> <<>>)
    /\ tracks_cache = <<>>
    /\ current_playlist = 0
    /\ current_index = 0
    /\ current_track = <<>>
    /\ is_playing = FALSE
    /\ current_process = "None"
    /\ search_results = <<>>
    /\ highlighted_playlist = 0
    /\ sub_title = ""
    /\ now_playing = <<>>
    /\ lastLoad = NoLoad
    /\ resolved = NoCall
    /\ lookups = 0
    /\ unterminated = 0

\* The playlists a session lists.  Playlists other than playlist 1 are
\* regular playlists with no declared count; playlist 1 is any playlist
\* object (LoaderSessions) or a large one (LargeSessions).
LoaderSessions ==
    { f \in [PlaylistIds -> PlaylistObjects] :
        \A p \in PlaylistIds \ {1} :
            f[p] = [title |-> "Big Mix", leafCount |-> {}] }

LargeSessions ==
    { f \in LoaderSessions :
        f[1] = [title |-> "Big Mix",
                leafCount |-> {LARGE_PLAYLIST_THRESHOLD + 1}] }

\* on_mount, lines 115-161: _connect_to_plex then _load_playlists.  A failed
\* connection leaves plex None, and then plex.playlists() raises.
OnMount(sessions, libraries) ==
    /\ ~mounted
    /\ mounted' = TRUE
    /\ \/ /\ plex' = TRUE
          /\ music_library' \in libraries
          /\ \/ /\ playlist_cache' \in sessions
                /\ sub_title' = "Loaded playlists"
             \/ /\ playlist_cache' = <<>>
                /\ sub_title' = "Error loading playlists"
       \/ /\ plex' = FALSE
          /\ music_library' = FALSE
          /\ playlist_cache' = <<>>
          /\ sub_title' = "Error loading playlists"
    /\ UNCHANGED <<heap, tracks_cache, current_playlist, current_index,
                   current_track, is_playing, current_process, search_results,
                   highlighted_playlist, now_playing, lastLoad, resolved,
                   lookups, unterminated>>

(***************************************************************************)
(* _play_track(track), lines 522-575: the states it can leave behind, one  *)
(* per outcome of the stream URL lookup, the player lookup and Popen.      *)
(* terminate() on the held handle is requested whether or not it raises    *)
(* (lines 556-560).                                                        *)
(***************************************************************************)
\* Mutant: the handle is dropped once terminate() has been called on it.
TerminatedDropsHandle(process) == "None"

Terminated(process) ==
    IF process = "None" THEN "None" ELSE "terminate_requested"

\* Mutant: _play_track and the selection handler never call terminate().
UnterminatedNotStopped(process, n) == n

\* The count of spawned processes never asked to terminate, after terminate()
\* is called on the held handle (lines 205-206, 556-558).
Unterminated(process, n) == IF process = "running" THEN n - 1 ELSE n

PlayTrack(track) ==
    { \* line 537-539: no stream URL
      [current_process |-> current_process, current_track |-> current_track,
       unterminated |-> unterminated,
       is_playing |-> is_playing, now_playing |-> now_playing,
       sub_title |-> "Could not get stream URL"],
      \* getStreamUrl or the manual URL raises: line 574
      [current_process |-> current_process, current_track |-> current_track,
       unterminated |-> unterminated,
       is_playing |-> is_playing, now_playing |-> now_playing,
       sub_title |-> "Error"],
      \* lines 546-553: the display is updated, then the player is not found
      [current_process |-> current_process, current_track |-> current_track,
       unterminated |-> unterminated,
       is_playing |-> is_playing, now_playing |-> track,
       sub_title |-> "ffplay not found"],
      \* lines 556-568: terminate requested, then Popen raises
      [current_process |-> Terminated(current_process),
       unterminated |-> Unterminated(current_process, unterminated),
       current_track |-> current_track,
       is_playing |-> is_playing, now_playing |-> track,
       sub_title |-> "Error"],
      \* lines 564-572: a new process is spawned
      [current_process |-> "running", current_track |-> track,
       unterminated |-> Unterminated(current_process, unterminated) + 1,
       is_playing |-> TRUE, now_playing |-> track,
       sub_title |-> "Playing..."] }

\* random.shuffle(lst): the permutations the model explores.
Reverse(s) == [i \in 1..Len(s) |-> s[Len(s) + 1 - i]]

Shuffles(s) == {s, Reverse(s)}

\* on_list_view_selected with a playlist item, lines 196-212.
OnPlaylistSelected(remote) ==
    /\ mounted
    /\ \E p \in DOMAIN playlist_cache :
        /\ highlighted_playlist' = p
        /\ \/ \* terminate() returns
              /\ current_process' = "None"
              /\ is_playing' = IF current_process = "None" THEN is_playing
                                                           ELSE FALSE
           \/ \* terminate() raises: lines 209-210
              /\ current_process # "None"
              /\ current_process' = "terminate_requested"
              /\ is_playing' = is_playing
        /\ \E r \in LoadPlaylistTracks(p, remote) :
            /\ heap' = r.heap
            /\ tracks_cache' = r.tracks_cache
            /\ current_playlist' = r.current_playlist
            /\ current_index' = r.current_index
            /\ sub_title' = r.sub_title
            /\ lastLoad' = r.lastLoad
    /\ unterminated' = Unterminated(current_process, unterminated)
    /\ UNCHANGED <<resolved, lookups, mounted, plex, music_library,
                   playlist_cache, current_track,
                   search_results, now_playing>>

\* on_list_view_highlighted, lines 224-241.
OnListViewHighlighted ==
    /\ mounted
    /\ lastLoad' = NoLoad
    /\ UNCHANGED <<resolved, lookups, unterminated>>
    /\ \E p \in DOMAIN playlist_cache : highlighted_playlist' = p
    /\ UNCHANGED <<mounted, plex, music_library, playlist_cache, heap,
                   tracks_cache, current_playlist, current_index, current_track,
                   is_playing, current_process, search_results, sub_title,
                   now_playing>>

\* action_load_playlist, lines 674-682.
ActionLoadPlaylist(remote) ==
    /\ mounted
    /\ highlighted_playlist # 0
    /\ \E r \in LoadPlaylistTracks(highlighted_playlist, remote) :
        /\ heap' = r.heap
        /\ tracks_cache' = r.tracks_cache
        /\ current_playlist' = r.current_playlist
        /\ current_index' = r.current_index
        /\ sub_title' = r.sub_title
        /\ lastLoad' = r.lastLoad
    /\ UNCHANGED <<resolved, lookups, unterminated, mounted, plex,
                   music_library, playlist_cache, current_track,
                   is_playing, current_process, search_results,
                   highlighted_playlist, now_playing>>

\* action_play_pause, lines 632-644: a process handle is held.
PlayPauseToggle ==
    /\ mounted
    /\ lastLoad' = NoLoad
    /\ UNCHANGED <<resolved, lookups, unterminated>>
    /\ current_process # "None"
    /\ \/ \* send_signal(SIGUSR1) returns
          /\ is_playing' = ~is_playing
          /\ sub_title' = IF is_playing THEN "Paused" ELSE "Playing"
       \/ \* Windows, or send_signal raises
          /\ UNCHANGED <<is_playing, sub_title>>
    /\ UNCHANGED <<mounted, plex, music_library, playlist_cache, heap,
                   tracks_cache, current_playlist, current_index, current_track,
                   current_process, search_results, highlighted_playlist,
                   now_playing>>

\* action_play_pause, lines 646-650: play the loaded list from its start.
PlayPauseStart ==
    /\ mounted
    /\ lastLoad' = NoLoad
    /\ UNCHANGED <<resolved, lookups>>
    /\ current_process = "None"
    /\ heap[current_playlist] # <<>>
    /\ current_index' = 0
    /\ \E q \in PlayTrack(heap[current_playlist][1]) :
        /\ current_process' = q.current_process
        /\ unterminated' = q.unterminated
        /\ current_track' = q.current_track
        /\ is_playing' = q.is_playing
        /\ now_playing' = q.now_playing
        /\ sub_title' = q.sub_title
    /\ UNCHANGED <<mounted, plex, music_library, playlist_cache, heap,
                   tracks_cache, current_playlist, search_results,
                   highlighted_playlist>>

\* action_play_pause, lines 651-660: load the highlighted playlist, shuffle
\* it in place if it is long, and play its first track.
PlayPauseLoad(remote) ==
    /\ mounted
    /\ current_process = "None"
    /\ heap[current_playlist] = <<>>
    /\ highlighted_playlist # 0
    /\ \E r \in LoadPlaylistTracks(highlighted_playlist, remote) :
        /\ tracks_cache' = r.tracks_cache
        /\ current_playlist' = r.current_playlist
        /\ lastLoad' = r.lastLoad
        /\ IF r.heap[r.current_playlist] # <<>>
             THEN \E s \in (IF Len(r.heap[r.current_playlist]) > SHUFFLE_THRESHOLD
                              THEN Shuffles(r.heap[r.current_playlist])
                              ELSE {r.heap[r.current_playlist]}) :
                    /\ heap' = [r.heap EXCEPT ![r.current_playlist] = s]
                    /\ current_index' = 0
                    /\ \E q \in PlayTrack(s[1]) :
                        /\ current_process' = q.current_process
                        /\ unterminated' = q.unterminated
                        /\ current_track' = q.current_track
                        /\ is_playing' = q.is_playing
                        /\ now_playing' = q.now_playing
                        /\ sub_title' = q.sub_title
             ELSE /\ heap' = r.heap
                  /\ current_index' = r.current_index
                  /\ sub_title' = r.sub_title
                  /\ UNCHANGED <<current_process, current_track, is_playing,
                                 now_playing, unterminated>>
    /\ UNCHANGED <<resolved, lookups, mounted, plex, music_library, playlist_cache,
                   search_results, highlighted_playlist>>

\* Mutant: action_next that wraps around to the first track after the last.
ActionNextWraps ==
    /\ mounted
    /\ lastLoad' = NoLoad
    /\ UNCHANGED <<resolved, lookups>>
    /\ IF heap[current_playlist] # <<>>
         THEN /\ \/ current_index < MaxIndex
                 \/ current_index = Len(heap[current_playlist]) - 1
              /\ current_index' = (current_index + 1) % Len(heap[current_playlist])
              /\ \E q \in PlayTrack(heap[current_playlist][current_index' + 1]) :
                  /\ current_process' = q.current_process
                  /\ unterminated' = q.unterminated
                  /\ current_track' = q.current_track
                  /\ is_playing' = q.is_playing
                  /\ now_playing' = q.now_playing
                  /\ sub_title' = q.sub_title
              /\ UNCHANGED <<mounted, plex, music_library, playlist_cache, heap,
                             tracks_cache, current_playlist, search_results,
                             highlighted_playlist>>
         ELSE UNCHANGED <<progvars, unterminated>>

\* action_next, lines 662-666.
ActionNext ==
    /\ mounted
    /\ lastLoad' = NoLoad
    /\ UNCHANGED <<resolved, lookups>>
    /\ IF /\ heap[current_playlist] # <<>>
          /\ current_index < Len(heap[current_playlist]) - 1
         THEN /\ current_index < MaxIndex
              /\ current_index' = current_index + 1
              /\ \E q \in PlayTrack(heap[current_playlist][current_index + 2]) :
                  /\ current_process' = q.current_process
                  /\ unterminated' = q.unterminated
                  /\ current_track' = q.current_track
                  /\ is_playing' = q.is_playing
                  /\ now_playing' = q.now_playing
                  /\ sub_title' = q.sub_title
              /\ UNCHANGED <<mounted, plex, music_library, playlist_cache, heap,
                             tracks_cache, current_playlist, search_results,
                             highlighted_playlist>>
         ELSE UNCHANGED <<progvars, unterminated>>

\* Mutant: action_previous without the test `self.current_index > 0`; index
\* -1 denotes the last track of a Python list.
ActionPreviousUnbounded ==
    /\ mounted
    /\ lastLoad' = NoLoad
    /\ UNCHANGED <<resolved, lookups>>
    /\ IF heap[current_playlist] # <<>>
         THEN /\ current_index >= 0
              /\ current_index' = current_index - 1
              /\ \E q \in PlayTrack(heap[current_playlist][
                              IF current_index = 0
                                THEN Len(heap[current_playlist])
                                ELSE current_index]) :
                  /\ current_process' = q.current_process
                  /\ unterminated' = q.unterminated
                  /\ current_track' = q.current_track
                  /\ is_playing' = q.is_playing
                  /\ now_playing' = q.now_playing
                  /\ sub_title' = q.sub_title
              /\ UNCHANGED <<mounted, plex, music_library, playlist_cache, heap,
                             tracks_cache, current_playlist, search_results,
                             highlighted_playlist>>
         ELSE UNCHANGED <<progvars, unterminated>>

\* action_previous, lines 668-672.
ActionPrevious ==
    /\ mounted
    /\ lastLoad' = NoLoad
    /\ UNCHANGED <<resolved, lookups>>
    /\ IF heap[current_playlist] # <<>> /\ current_index > 0
         THEN /\ current_index' = current_index - 1
              /\ \E q \in PlayTrack(heap[current_playlist][current_index]) :
                  /\ current_process' = q.current_process
                  /\ unterminated' = q.unterminated
                  /\ current_track' = q.current_track
                  /\ is_playing' = q.is_playing
                  /\ now_playing' = q.now_playing
                  /\ sub_title' = q.sub_title
              /\ UNCHANGED <<mounted, plex, music_library, playlist_cache, heap,
                             tracks_cache, current_playlist, search_results,
                             highlighted_playlist>>
         ELSE UNCHANGED <<progvars, unterminated>>

\* Mutant: action_random that does not reset the index.
ActionRandomKeepsIndex ==
    /\ mounted
    /\ lastLoad' = NoLoad
    /\ UNCHANGED <<resolved, lookups>>
    /\ IF heap[current_playlist] # <<>>
         THEN /\ \E s \in Shuffles(heap[current_playlist]) :
                  /\ heap' = [heap EXCEPT ![current_playlist] = s]
                  /\ \E q \in PlayTrack(s[1]) :
                      /\ current_process' = q.current_process
                      /\ unterminated' = q.unterminated
                      /\ current_track' = q.current_track
                      /\ is_playing' = q.is_playing
                      /\ now_playing' = q.now_playing
              /\ current_index' = current_index
              /\ sub_title' = "Shuffled"
              /\ UNCHANGED <<mounted, plex, music_library, playlist_cache,
                             tracks_cache, current_playlist, search_results,
                             highlighted_playlist>>
         ELSE UNCHANGED <<progvars, unterminated>>

\* action_random, lines 684-690: shuffle the active list in place.
ActionRandom ==
    /\ mounted
    /\ lastLoad' = NoLoad
    /\ UNCHANGED <<resolved, lookups>>
    /\ IF heap[current_playlist] # <<>>
         THEN /\ \E s \in Shuffles(heap[current_playlist]) :
                  /\ heap' = [heap EXCEPT ![current_playlist] = s]
                  /\ \E q \in PlayTrack(s[1]) :
                      /\ current_process' = q.current_process
                      /\ unterminated' = q.unterminated
                      /\ current_track' = q.current_track
                      /\ is_playing' = q.is_playing
                      /\ now_playing' = q.now_playing
              /\ current_index' = 0
              /\ sub_title' = "Shuffled"
              /\ UNCHANGED <<mounted, plex, music_library, playlist_cache,
                             tracks_cache, current_playlist, search_results,
                             highlighted_playlist>>
         ELSE UNCHANGED <<progvars, unterminated>>

\* Mutant: a search that returns tracks whether or not there is a session.
SearchTracksWithoutSession ==
    /\ mounted
    /\ lastLoad' = NoLoad
    /\ UNCHANGED <<resolved, lookups, unterminated>>
    /\ \E n \in 0..MaxSearch : search_results' = Items("query", 0, n)
    /\ sub_title' = "Found"
    /\ UNCHANGED <<mounted, plex, music_library, playlist_cache, heap,
                   tracks_cache, current_playlist, current_index, current_track,
                   is_playing, current_process, highlighted_playlist,
                   now_playing>>

\* _search_tracks(query), lines 607-630.  With no session (plex None, so no
\* library either) the search raises.
SearchTracks ==
    /\ mounted
    /\ lastLoad' = NoLoad
    /\ UNCHANGED <<resolved, lookups, unterminated>>
    /\ \/ /\ plex
          /\ \E n \in 0..MaxSearch : search_results' = Items("query", 0, n)
          /\ sub_title' = "Found"
       \/ /\ UNCHANGED search_results
          /\ sub_title' = "Search error"
    /\ UNCHANGED <<mounted, plex, music_library, playlist_cache, heap,
                   tracks_cache, current_playlist, current_index, current_track,
                   is_playing, current_process, highlighted_playlist,
                   now_playing>>

\* on_list_view_selected with a track item of the search list, lines
\* 220-222, and _play_track_by_key, lines 514-520.
OnTrackSelected ==
    /\ mounted
    /\ lastLoad' = NoLoad
    /\ UNCHANGED <<resolved, lookups>>
    /\ \E i \in 1..Len(search_results) :
        \E q \in PlayTrack(search_results[i]) :
            /\ current_process' = q.current_process
            /\ unterminated' = q.unterminated
            /\ current_track' = q.current_track
            /\ is_playing' = q.is_playing
            /\ now_playing' = q.now_playing
            /\ sub_title' = q.sub_title
    /\ UNCHANGED <<mounted, plex, music_library, playlist_cache, heap,
                   tracks_cache, current_playlist, current_index,
                   search_results, highlighted_playlist>>

Next ==
    \/ OnMount(LargeSessions, {FALSE})
    \/ OnListViewHighlighted
    \/ OnPlaylistSelected(SessionRemote)
    \/ ActionLoadPlaylist(SessionRemote)
    \/ PlayPauseToggle
    \/ PlayPauseStart
    \/ PlayPauseLoad(SessionRemote)
    \/ ActionNext
    \/ ActionPrevious
    \/ ActionRandom
    \/ SearchTracks
    \/ OnTrackSelected

Spec == Init /\ [][Next]_vars

\* The loader against every kind of playlist and the wider remote
\* environment.
NextLoad ==
    \/ OnMount(LoaderSessions, BOOLEAN)
    \/ OnListViewHighlighted
    \/ ActionLoadPlaylist(LoaderRemote)

SpecLoad == Init /\ [][NextLoad]_vars

\* The play/pause key on a highlighted playlist with nothing loaded, against
\* a server whose sequences may raise part-way.
NextPlay ==
    \/ OnMount(LoaderSessions, BOOLEAN)
    \/ OnListViewHighlighted
    \/ PlayPauseLoad(LoaderRemote)

SpecPlay == Init /\ [][NextPlay]_vars

\* Loading, stepping through and shuffling short lists: every remote
\* sequence has at most MaxSmall items.
ShortRemote == [sizes |-> 0..MaxSmall, partials |-> 0..MaxPartial]

NextShuffle ==
    \/ OnMount(LoaderSessions, BOOLEAN)
    \/ OnListViewHighlighted
    \/ ActionLoadPlaylist(ShortRemote)
    \/ ActionNext
    \/ ActionRandom

SpecShuffle == Init /\ [][NextShuffle]_vars

\* The call invoked fetchItem (line 450) or track.artist() (line 463).  A
\* fifth entry "raised" of a call that raised is the read of ratingKey.
RemoteInvoked(r) ==
    \/ /\ Len(r.tiers) >= 5
       /\ r.tiers[5] \notin {"skipped", "no_attr"}
       /\ ~(r.raised /\ Len(r.tiers) = 5)
    \/ /\ Len(r.tiers) >= 6
       /\ r.tiers[6] # "skipped"

\* The methods among 1-4 that the call reached; they read the track itself.
LocalReads(r) == 1..Min(Len(r.tiers), 4)

\* Two calls that can be calls on the same track: methods 1-4 read the same,
\* and a value they found is the same.
SameTrack(r, q) ==
    /\ r.tiers[1] = q.tiers[1]
    /\ LocalReads(r) = LocalReads(q)
    /\ \A k \in LocalReads(r) : r.tiers[k] = q.tiers[k]
    /\ (\E k \in LocalReads(r) : r.tiers[k] = "value") => r.value = q.value

\* The first call of _get_artist_name on a track.
ResolveArtist ==
    /\ resolved = NoCall
    /\ resolved' \in GetArtistName
    /\ lookups' = IF RemoteInvoked(resolved') THEN 1 ELSE 0
    /\ UNCHANGED <<progvars, lastLoad, unterminated>>

\* A later call on the same track, from a list display (line 491), a search
\* (line 622) or a play (line 543).  _get_artist_name writes nothing to the
\* track, so the call goes through the methods again.
ResolveAgain ==
    /\ resolved # NoCall
    /\ resolved' \in {q \in GetArtistName : SameTrack(resolved, q)}
    /\ lookups' = lookups + (IF RemoteInvoked(resolved') THEN 1 ELSE 0)
    /\ lookups' <= MaxLookups
    /\ UNCHANGED <<progvars, lastLoad, unterminated>>

NextArtist == ResolveArtist \/ ResolveAgain

SpecArtist == Init /\ [][NextArtist]_vars


(***************************************************************************)
(* Properties of the loader.                                               *)
(***************************************************************************)
\* The handler that just ran called _load_playlist_tracks and missed the
\* cache: a fetch was run.
Fetched == lastLoad.pid # 0 /\ ~lastLoad.hit

LoadedPlaylist == playlist_cache[lastLoad.pid]

\* The declared count is known and strictly greater than 1000.
CountAbove1000(pl) == \E n \in pl.leafCount : n > 1000

FirstMethod == lastLoad.calls[1].method

\* C1: the first fetch method a load invokes is a function of the title,
\* the declared count and the presence of a library handle: recentlyAdded
\* if the title contains "Recently Added" and a library handle is present;
\* else the library search if the count is known, above 1000 and a library
\* handle is present; else the playlist's own items.
C1_StrategySelection ==
    Fetched =>
        FirstMethod =
            IF LoadedPlaylist.title = "Recently Added" /\ music_library
              THEN "recentlyAdded"
              ELSE IF CountAbove1000(LoadedPlaylist) /\ music_library
                THEN "search"
                ELSE "items"

\* A "Recently Added" playlist with a count above 1000 takes the recent feed.
C1_Witness ==
    /\ Fetched
    /\ LoadedPlaylist.title = "Recently Added"
    /\ CountAbove1000(LoadedPlaylist)
    /\ FirstMethod = "recentlyAdded"

\* C2 as stated: the cap follows from the strategy alone, 50 for the recent
\* feed and the library scan, 100 for direct enumeration.
C2_CapByStrategy ==
    Fetched =>
        lastLoad.limit =
            IF FirstMethod \in {"recentlyAdded", "search"} THEN 50 ELSE 100

\* C2 amended: the cap follows from the declared count alone, 50 when the
\* count is known and above 1000 and 100 otherwise; so the library scan
\* always runs at 50, and the limit sent with a library call is that cap.
C2_CapByDeclaredCount ==
    Fetched =>
        /\ lastLoad.limit = IF CountAbove1000(LoadedPlaylist) THEN 50 ELSE 100
        /\ FirstMethod = "search" => lastLoad.limit = 50
        /\ \A i \in 1..Len(lastLoad.calls) :
            lastLoad.calls[i].maxresults \subseteq {lastLoad.limit}

\* A recent-feed load of a playlist whose count is not above 1000, at cap 100.
C2_Witness ==
    /\ Fetched
    /\ FirstMethod = "recentlyAdded"
    /\ lastLoad.limit = 100
    /\ ~CountAbove1000(LoadedPlaylist)

\* C3: the list a load produces, caches and makes current is never longer
\* than the cap of that load.
C3_LengthWithinCap ==
    (Fetched /\ ~lastLoad.failed) =>
        /\ lastLoad.ntracks <= lastLoad.limit
        /\ Len(heap[tracks_cache[lastLoad.pid]]) <= lastLoad.limit
        /\ Len(heap[current_playlist]) <= lastLoad.limit

\* C4: a load of a playlist whose id is already a key of tracks_cache invokes
\* no fetch method, leaves the cache as it is and makes the cached list
\* object itself current.
C4_CacheHitShortCircuits ==
    [][ (lastLoad'.pid # 0 /\ lastLoad'.pid \in DOMAIN tracks_cache) =>
            /\ lastLoad'.hit
            /\ lastLoad'.calls = <<>>
            /\ tracks_cache' = tracks_cache
            /\ current_playlist' = tracks_cache[lastLoad'.pid]
      ]_vars

C4_Witness ==
    /\ lastLoad.hit
    /\ current_playlist = tracks_cache[lastLoad.pid]
    /\ heap[current_playlist] # <<>>

\* C5: once a playlist has a cache entry, the entry keeps denoting the same
\* tracks in the same order whatever handler runs next (next, previous,
\* shuffle, play, search, loads of any playlist).
C5_CacheEntriesStable ==
    [][ \A p \in DOMAIN tracks_cache :
            /\ p \in DOMAIN tracks_cache'
            /\ heap'[tracks_cache'[p]] = heap[tracks_cache[p]]
      ]_vars

\* C6: after a load in which every applicable fetch method raised, an error
\* status is set and the active track list is empty.
C6_FailedLoadLeavesEmptyList ==
    (Fetched /\ lastLoad.failed) =>
        /\ sub_title = "Error"
        /\ heap[current_playlist] = <<>>

\* C7: a load in which every applicable fetch method raised leaves
\* tracks_cache as it was, without an entry for the playlist; tracks_cache
\* changes only by a fetch that completed, which adds the loaded playlist;
\* and a load of a playlist with no entry invokes the fetch methods.
C7_CachePopulatedOnlyBySuccess ==
    [][ /\ (lastLoad'.pid # 0 /\ lastLoad'.failed) =>
              /\ tracks_cache' = tracks_cache
              /\ lastLoad'.pid \notin DOMAIN tracks_cache'
        /\ tracks_cache' # tracks_cache =>
              /\ lastLoad'.pid # 0 /\ ~lastLoad'.hit /\ ~lastLoad'.failed
              /\ DOMAIN tracks_cache' = DOMAIN tracks_cache \cup {lastLoad'.pid}
        /\ (lastLoad'.pid # 0 /\ lastLoad'.pid \notin DOMAIN tracks_cache) =>
              lastLoad'.calls # <<>>
      ]_vars

\* A load that failed after trying more than one method, the playlist left
\* uncached.
C7_Witness ==
    /\ Fetched
    /\ lastLoad.failed
    /\ Len(lastLoad.calls) >= 2
    /\ lastLoad.pid \notin DOMAIN tracks_cache

\* C8 as stated: whatever way recentlyAdded fails, the sorted search is
\* tried next, and the playlist's items only after the sorted search failed.
C8_SortedSearchAfterAnyFailure ==
    (Fetched /\ FirstMethod = "recentlyAdded") =>
        /\ lastLoad.calls[1].exc # "none" =>
              /\ Len(lastLoad.calls) >= 2
              /\ lastLoad.calls[2].method = "searchSorted"
        /\ \A i \in 1..Len(lastLoad.calls) :
              lastLoad.calls[i].method = "items" =>
                  /\ i > 1
                  /\ lastLoad.calls[i - 1].method = "searchSorted"
                  /\ lastLoad.calls[i - 1].exc # "none"

\* C8 amended: the sorted search is tried exactly when the recentlyAdded
\* call itself raises AttributeError, and then the playlist's items are
\* tried only after the sorted search failed; after any other failure of
\* recentlyAdded (another exception, or one raised while iterating its
\* result) the playlist's items are tried next, with no sorted search.
C8_SortedSearchAfterAttributeError ==
    (Fetched /\ FirstMethod = "recentlyAdded") =>
        LET c == lastLoad.calls
            unavailable == c[1].exc = "AttributeError" /\ c[1].at = "call"
        IN  /\ c[1].exc = "none" => Len(c) = 1
            /\ unavailable =>
                  /\ Len(c) >= 2
                  /\ c[2].method = "searchSorted"
                  /\ c[2].exc = "none" => Len(c) = 2
                  /\ c[2].exc # "none" => Len(c) = 3 /\ c[3].method = "items"
            /\ (c[1].exc # "none" /\ ~unavailable) =>
                  /\ Len(c) = 2
                  /\ c[2].method = "items"

\* recentlyAdded unavailable, the sorted search failed, the items were tried.
C8_Witness ==
    /\ Fetched
    /\ Len(lastLoad.calls) = 3
    /\ lastLoad.calls[1].method = "recentlyAdded"
    /\ lastLoad.calls[1].exc = "AttributeError"
    /\ lastLoad.calls[2].method = "searchSorted"
    /\ lastLoad.calls[3].method = "items"

\* C9: the library scan tries the limited search, then library.all(), then
\* the playlist's items, in that order; a method is invoked only if the one
\* before it raised, and after a method that did not raise none is invoked.
C9_LibraryScanOrder ==
    (Fetched /\ FirstMethod = "search") =>
        LET c == lastLoad.calls
        IN  /\ Len(c) <= 3
            /\ \A i \in 1..Len(c) : c[i].method = <<"search", "all", "items">>[i]
            /\ \A i \in 1..(Len(c) - 1) : c[i].exc # "none"
            /\ c[Len(c)].exc # "none" => Len(c) = 3 /\ lastLoad.failed
            /\ c[Len(c)].exc = "none" => ~lastLoad.failed

\* The search and library.all() raised, the playlist's items succeeded.
C9_Witness ==
    /\ Fetched
    /\ FirstMethod = "search"
    /\ Len(lastLoad.calls) = 3
    /\ ~lastLoad.failed

\* C10: a call of _get_artist_name raises nothing and returns a non-empty
\* string, which is 'Unknown' exactly when no method produced a non-empty
\* value, whatever the fields are: present, absent, empty, blank or raising.
C10_ArtistNameTotal ==
    resolved # NoCall =>
        /\ ~resolved.raised
        /\ resolved.value # <<>>
        /\ resolved.value = Unknown <=>
                \A k \in 1..Len(resolved.tiers) : resolved.tiers[k] # "value"

\* C11: the methods are tried in order, and once a method has produced a
\* non-empty value no later method is attempted; in particular the reload
\* (method 5) and artist() (method 6) are not invoked after a value from
\* methods 1-4, nor artist() after a value from the reload.
C11_TiersInOrder ==
    \A j \in 1..Len(resolved.tiers) :
        resolved.tiers[j] = "value" =>
            \A k \in (j + 1)..Len(resolved.tiers) :
                resolved.tiers[k] = "skipped"

\* No grandparentTitle attribute, an originalTitle element in the raw
\* document: its text is returned and methods 3-6 are not attempted.
C11_Witness ==
    /\ resolved.tiers =
          <<"no_attr", "value", "skipped", "skipped", "skipped", "skipped">>
    /\ resolved.value = <<"o">>

\* C12: over the calls of _get_artist_name on one track, from displays,
\* searches and plays, the remote methods (fetchItem and artist()) are
\* invoked in at most one call.
C12_RemoteLookupAtMostOnce == lookups <= 1

\* C13: after every handler, a non-empty current_playlist has
\* 0 <= current_index < len(current_playlist); with an empty list next and
\* previous leave current_index as it is.
C13_IndexInRange ==
    [][ /\ heap'[current_playlist'] # <<>> =>
              /\ 0 <= current_index'
              /\ current_index' < Len(heap'[current_playlist'])
        /\ (heap[current_playlist] = <<>> /\ (ActionNext \/ ActionPrevious)) =>
              current_index' = current_index
      ]_vars

\* next has moved the index to the last track of the list.
C13_Witness ==
    /\ current_index > 0
    /\ current_index = Len(heap[current_playlist]) - 1

\* C14: action_next at the last index, action_previous at index 0, and
\* either on an empty list change nothing: the index, the list, the current
\* track, is_playing and the process handle stay as they are (no terminate
\* request, no spawn, no wraparound).
C14_BoundaryNoOp ==
    [][ ( \/ /\ ActionNext
              /\ \/ heap[current_playlist] = <<>>
                 \/ current_index = Len(heap[current_playlist]) - 1
          \/ /\ ActionPrevious
              /\ \/ heap[current_playlist] = <<>>
                 \/ current_index = 0 )
        => UNCHANGED <<current_index, current_playlist, heap, current_track,
                       is_playing, current_process, now_playing>>
      ]_vars

\* A track is playing and the index is at the last track of the list.
C14_Witness ==
    /\ heap[current_playlist] # <<>>
    /\ current_index = Len(heap[current_playlist]) - 1
    /\ current_process = "running"
    /\ is_playing

\* C15: _play_track calls terminate() on the handle it holds before it
\* spawns a player, so at no time are there two processes that were spawned
\* and never asked to terminate; the one there may be is the held handle.
C15_TerminateBeforeSpawn ==
    /\ unterminated <= 1
    /\ unterminated = 1 => current_process = "running"

\* The second track of the list is playing, after next.
C15_Witness ==
    /\ current_process = "running"
    /\ unterminated = 1
    /\ current_index = 1
    /\ current_track = heap[current_playlist][2]

\* C16: a call of _play_track that ends with no stream URL or with no player
\* executable spawns nothing, requests no terminate, and leaves
\* current_process, current_track and is_playing as they were; it sets a
\* status message and nothing else, so the now-playing display is unchanged.
C16_NoPlaybackWithoutSource ==
    [][ sub_title' \in {"Could not get stream URL", "ffplay not found"} =>
            UNCHANGED <<current_process, current_track, is_playing,
                        unterminated, now_playing>>
      ]_vars

\* C17: after a load that did not fail, fetched or served from the cache, if
\* the playlist's declared count is greater than the number of tracks shown
\* then the display carries a count or truncation annotation.
C17_TruncationAnnotated ==
    (lastLoad.pid # 0 /\ ~lastLoad.failed) =>
        ((\E n \in LoadedPlaylist.leafCount : n > DisplayAfterLoad.loaded) =>
            (DisplayAfterLoad.of_total # {} \/ DisplayAfterLoad.only_first))

\* C18: when the connection failed at startup the application runs on with
\* no playlists and an error status, and whatever is done afterwards
\* (search, load, play/pause, next, previous, shuffle) no track list is
\* loaded, no search result is listed, no cache entry is added and no player
\* process is spawned.
C18_InertWithoutSession ==
    (mounted /\ ~plex) =>
        /\ playlist_cache = <<>>
        /\ highlighted_playlist = 0
        /\ tracks_cache = <<>>
        /\ heap[current_playlist] = <<>>
        /\ search_results = <<>>
        /\ current_process = "None"
        /\ unterminated = 0
        /\ ~is_playing
        /\ sub_title \in {"Error loading playlists", "Search error"}

\* The connection failed and a search has been tried since.
C18_Witness ==
    /\ mounted
    /\ ~plex
    /\ sub_title = "Search error"

\* The tracks of one method are in the order the method gave them.
InFetchedOrder(s) ==
    \A i \in 1..(Len(s) - 1) : s[i][1] = s[i + 1][1] => s[i][3] < s[i + 1][3]

\* C19: play/pause on a highlighted playlist loads it and starts at index 0;
\* a loaded list of 50 tracks or fewer is played in fetched order, and so is
\* every list loaded at the large-playlist cap of 50.
C19_ShuffleOnlyAbove50 ==
    [][ (lastLoad'.pid # 0 /\ ~lastLoad'.failed
            /\ heap'[current_playlist'] # <<>>) =>
          LET s == heap'[current_playlist']
          IN  /\ current_index' = 0
              /\ now_playing' \in {now_playing, s[1]}
              /\ Len(s) <= SHUFFLE_THRESHOLD => InFetchedOrder(s)
              /\ lastLoad'.limit = LARGE_PLAYLIST_LIMIT => InFetchedOrder(s)
      ]_vars

\* Sequences with the same elements, each as many times.
IsPermutation(a, b) ==
    /\ Len(a) = Len(b)
    /\ \A i \in 1..Len(a) :
          Cardinality({j \in 1..Len(a) : a[j] = a[i]})
            = Cardinality({j \in 1..Len(b) : b[j] = a[i]})

\* C20: after a load that replaces current_playlist, from the cache or
\* fetched, current_index is 0; after a shuffle current_index is 0, the list
\* is a permutation of what it was, and the track played is the one now at
\* index 0.
C20_IndexZeroAfterLoadAndShuffle ==
    [][ /\ (lastLoad'.pid # 0 /\ ~lastLoad'.failed) =>
              /\ current_index' = 0
              /\ current_playlist' = tracks_cache'[lastLoad'.pid]
        /\ (ActionRandom /\ heap[current_playlist] # <<>>) =>
              /\ current_index' = 0
              /\ current_playlist' = current_playlist
              /\ IsPermutation(heap'[current_playlist], heap[current_playlist])
              /\ now_playing' \in {now_playing, heap'[current_playlist][1]}
              /\ current_track' \in {current_track, heap'[current_playlist][1]}
      ]_vars

\* After a shuffle that changed the order, the first track is playing.
C20_Witness ==
    /\ sub_title = "Shuffled"
    /\ current_index = 0
    /\ heap[current_playlist] # <<>>
    /\ ~InFetchedOrder(heap[current_playlist])
    /\ current_process = "running"
    /\ current_track = heap[current_playlist][1]

\* C21: every recentlyAdded call and every library search of a load carries
\* the server-side limit min(cap, 1000), which is at most 1000; a library
\* scan starts with such a limited search, not with an unlimited
\* enumeration.
C21_ServerSideLimit ==
    Fetched =>
        /\ \A i \in 1..Len(lastLoad.calls) :
              lastLoad.calls[i].method
                    \in {"recentlyAdded", "searchSorted", "search"} =>
                /\ lastLoad.calls[i].maxresults
                      = {Min(lastLoad.limit, MAX_API_RESULTS)}
                /\ \A n \in lastLoad.calls[i].maxresults : n <= MAX_API_RESULTS
        /\ SelectStrategy(LoadedPlaylist.title, LoadedPlaylist.leafCount,
                          music_library) = "LARGE_LIBRARY_SCAN" =>
              /\ FirstMethod = "search"
              /\ lastLoad.calls[1].maxresults # {}

\* A library scan whose limited search returned the tracks.
C21_Witness ==
    /\ Fetched
    /\ Len(lastLoad.calls) = 1
    /\ FirstMethod = "search"
    /\ lastLoad.calls[1].exc = "none"
    /\ lastLoad.calls[1].maxresults = {LARGE_PLAYLIST_LIMIT}

\* C22: a load by direct enumeration draws at most cap items from the
\* sequence playlist.items() returned, however long the sequence is.
C22_DirectDrawsAtMostCap ==
    (Fetched /\ FirstMethod = "items") =>
        lastLoad.calls[1].drawn <= lastLoad.limit

\* C23: the list a load caches and makes current holds only tracks yielded
\* by the method that completed, the last one called; tracks yielded by a
\* method that then raised are not in it.
C23_SingleMethodList ==
    (Fetched /\ ~lastLoad.failed) =>
        LET tracks == heap[tracks_cache[lastLoad.pid]]
            last == lastLoad.calls[Len(lastLoad.calls)]
        IN  \A i \in 1..Len(tracks) : tracks[i][1] = last.method

\* The track came from the playlist's own items(); a track of a library
\* method is whatever the library holds, in the playlist or not.
MemberOf(track, p) == track[2] = p

\* C24: every track of the list a load caches and makes current for a
\* playlist is a member track of that playlist, whatever the strategy and
\* the fallback.
C24_TracksAreMembers ==
    (Fetched /\ ~lastLoad.failed) =>
        LET tracks == heap[tracks_cache[lastLoad.pid]]
        IN  \A i \in 1..Len(tracks) : MemberOf(tracks[i], lastLoad.pid)

\* C25: whenever is_playing is true a player process handle is held.
C25_PlayingImpliesHandle == is_playing => current_process # "None"

\* Playing, and a later terminate() or spawn raised: the handle is still held.
C25_Witness ==
    /\ is_playing
    /\ current_process = "terminate_requested"

\* C26: the track the now-playing display names is current_track, the track
\* of the latest spawn; a _play_track call that spawns nothing leaves the
\* display as it was.
C26_NowPlayingIsCurrentTrack == now_playing = current_track

=============================================================================
